---- MODULE Spec2Model ----
(***************************************************************************)
(* A model of the card-recognition code of MTG-Collection:                 *)
(*   backend/app/services/ocr.py     (Tesseract pipeline)                  *)
(*   backend/app/services/vision.py  (Cloud Vision text extraction)        *)
(*   backend/app/services/scryfall.py (card lookup)                        *)
(*   backend/app/routes/scan.py      (scan routes)                         *)
(* A text is a sequence of characters, each a one-character string.        *)
(***************************************************************************)
EXTENDS Integers, Sequences, FiniteSets, TLC

VARIABLES
    raw,            \* SpecClean: the raw text given to clean_ocr_result
    out1,           \* SpecClean: clean_ocr_result(raw)
    out2,           \* SpecClean: clean_ocr_result applied to out1
    cstep,          \* SpecClean: 0 = nothing applied, 1 = cleaned once, 2 = twice
    outs,           \* SpecRunOcr: what the engine does for each of the 4 configs
    ocr,            \* SpecRunOcr: what run_ocr did with them
    ostep,          \* SpecRunOcr: 0 = before the call, 1 = after it
    mode,           \* Spec: the entry point, "single" | "binder" | "route"
    pc,             \* Spec: where the entry point's code is
    avail,          \* TESSERACT_AVAILABLE (ocr.py) / VISION_AVAILABLE (scan.py)
    decodable,      \* whether cv2.imread decodes the supplied image
    width,          \* the decoded image's width
    height,         \* the decoded image's height
    images,         \* images_to_try of extract_card_name_from_image
    si,             \* index of the strategy being tried (1-based)
    vi,             \* index of the preprocessing variant being recognised
    best_result,    \* best_result of the selection loops
    best_score,     \* best_score of the selection loops
    ret,            \* what extract_card_name_from_image returned
    early,          \* whether it returned through "Good enough, return early"
    top_score,      \* history: the highest run_ocr score of any candidate produced
    cells,          \* card_cells / cell_paths: the grid cells, in list order
    ci,             \* index of the cell being processed (1-based)
    card_names,     \* card_names of extract_cards_from_binder_page
    origin,         \* history: the <<row, col>> of the cell behind each result
    cur,            \* history: the cell last taken up and the stages run on it
    ncards,         \* how many non-blank cells the page has shown so far
    slot_error,     \* history: the cell in which an error was raised (0: none)
    req,            \* scan_binder_page: what the request's 'image' part is like
    results,        \* scan_binder_page: results
    response,       \* scan_binder_page: the response returned
    cache,          \* the lru_cache of get_card_by_name: {[name, value]}
    lookups,        \* history: the calls of get_card_by_name and what each met
    pts,            \* SpecOrder: the 4 points given to order_points
    rect,           \* SpecOrder: order_points(pts)
    rect2,          \* SpecOrder: order_points applied to rect
    gstep,          \* SpecOrder: 0 = nothing applied, 1 = ordered once, 2 = twice
    fpc,            \* SpecFind: where find_card_in_image is
    preset,         \* SpecFind: index of the Canny preset in use (1-based)
    contours,       \* SpecFind: contours[:5] of the preset, after the sort
    left_out,         \* SpecFind: the contours the slice left out
    fc,             \* SpecFind: index of the contour being examined
    flog,           \* SpecFind: history, the polygons examined so far
    fret,           \* SpecFind: what find_card_in_image returned
    img_to_use,     \* SpecFind: the image the caller goes on with
    one,            \* SpecSelect: "running" until extract_card_name_from_image returns
    slot,           \* SpecSelect: the selection loop of a binder cell on the same image
    clock,          \* SpecRate: time.time(), in milliseconds
    last_request_time, \* SpecRate: _last_request_time, in milliseconds
    tpc,            \* SpecRate: where each thread is
    tnow,           \* SpecRate: each thread's local now
    wake,           \* SpecRate: when each sleeping thread's time.sleep ends
    sent,           \* SpecRate: history, the start times of the requests made
    table,          \* SpecColl: the committed rows of collection, {[id, quantity]}
    next_id,        \* SpecColl: the next value of the id sequence
    tx,             \* SpecColl: each request thread's request and transaction
    hist            \* SpecColl: history, what was asked of the collection

cleanVars == <<raw, out1, out2, cstep>>

ocrVars == <<outs, ocr, ostep>>

inputVars == <<mode, avail, decodable, width, height>>

singleVars == <<images, si, ret, early, top_score>>

bestVars == <<vi, best_result, best_score>>

binderVars == <<cells, ci, card_names, origin, cur, ncards, slot_error>>

routeVars == <<req, results, response, cache, lookups>>

orderVars == <<pts, rect, rect2, gstep>>

findVars == <<fpc, preset, contours, left_out, fc, flog, fret, img_to_use>>

selectVars == <<one, slot>>

rateVars == <<clock, last_request_time, tpc, tnow, wake, sent>>

collVars == <<table, next_id, tx, hist>>

sideVars == <<orderVars, findVars, selectVars, rateVars, collVars>>

vars == <<raw, out1, out2, cstep, outs, ocr, ostep, mode, pc, avail, decodable,
          width, height, images, si, vi, best_result, best_score, ret, early,
          top_score, cells, ci, card_names, origin, cur, ncards, slot_error,
          req, results, response, cache, lookups, pts, rect, rect2, gstep, fpc, preset,
          contours, left_out, fc, flog, fret, img_to_use, one, slot, clock,
          last_request_time, tpc, tnow, wake, sent, table, next_id, tx, hist>>

----------------------------------------------------------------------------
(* Characters *)

Lower == {"a","b","c","d","e","f","g","h","i","j","k","l","m",
          "n","o","p","q","r","s","t","u","v","w","x","y","z"}

Upper == {"A","B","C","D","E","F","G","H","I","J","K","L","M",
          "N","O","P","Q","R","S","T","U","V","W","X","Y","Z"}

\* U+2014 and U+2013, written as tokens (the module is ASCII)
EmDash == "EMDASH"

EnDash == "ENDASH"

\* str.isalpha() on the characters that survive the [a-zA-Z...] filter
IsAlpha(c) == c \in Lower \cup Upper

\* str.isupper()
IsUpper(c) == c \in Upper

\* what str.strip() with no argument removes, and what \s matches
Whitespace == {" ", "\t", "\r", "\n", "\f"}

\* the argument of text.strip('.,;:!?[]{}()"\'-_=+<>*@#$%^&/')
StripChars == {".", ",", ";", ":", "!", "?", "[", "]", "{", "}", "(", ")",
               "\"", "'", "-", "_", "=", "+", "<", ">", "*", "@", "#", "$",
               "%", "^", "&", "/"}

\* the characters kept by re.sub(r'[^a-zA-Z\s\-\',]', '', text)
KeptChars == Lower \cup Upper \cup Whitespace \cup {"-", "'", ","}

\* Python's None and a returned text; a text is never confused with None
None == [some |-> FALSE, text |-> <<>>]

Some(t) == [some |-> TRUE, text |-> t]

----------------------------------------------------------------------------
(* String helpers, as Python computes them *)

RECURSIVE LStrip(_, _)
LStrip(s, S) ==
    IF s = <<>> THEN s
    ELSE IF Head(s) \in S THEN LStrip(Tail(s), S) ELSE s

RECURSIVE RStrip(_, _)
RStrip(s, S) ==
    IF s = <<>> THEN s
    ELSE IF s[Len(s)] \in S THEN RStrip(SubSeq(s, 1, Len(s) - 1), S) ELSE s

\* str.strip(chars)
Strip(s, S) == RStrip(LStrip(s, S), S)

\* text.split('\n')[0]
RECURSIVE FirstLine(_)
FirstLine(s) ==
    IF s = <<>> THEN s
    ELSE IF Head(s) = "\n" THEN <<>>
    ELSE <<Head(s)>> \o FirstLine(Tail(s))

\* the chain of str.replace calls of clean_ocr_result, on one character
RemapChar(c) ==
    CASE c = "|" -> "l"
      [] c = "1" -> "l"
      [] c = "0" -> "O"
      [] c = EmDash -> "-"
      [] c = EnDash -> "-"
      [] OTHER   -> c

Remap(s) == [k \in 1..Len(s) |-> RemapChar(s[k])]

KeepOnly(s) == SelectSeq(s, LAMBDA c : c \in KeptChars)

\* re.sub(r'\s+', ' ', text): every maximal run of whitespace becomes one space
RECURSIVE CollapseSpaces(_)
CollapseSpaces(s) ==
    IF s = <<>> THEN s
    ELSE IF Head(s) \in Whitespace
         THEN <<" ">> \o CollapseSpaces(LStrip(Tail(s), Whitespace))
         ELSE <<Head(s)>> \o CollapseSpaces(Tail(s))

LetterCount(s) == Len(SelectSeq(s, IsAlpha))

UpperCount(s) == Len(SelectSeq(s, IsUpper))

\* clean_ocr_result without its "at least 3 letters" test (a faulty variant)
clean_ocr_result_NoFloor(text) ==
    IF text = <<>> THEN None
    ELSE LET t == Strip(CollapseSpaces(KeepOnly(
                      Strip(Remap(Strip(FirstLine(text), Whitespace)), StripChars))),
                      Whitespace)
         IN  IF t = <<>> THEN None ELSE Some(t)

\* clean_ocr_result(text): None, or the cleaned first line
clean_ocr_result(text) ==
    IF text = <<>> THEN None
    ELSE LET line     == Strip(FirstLine(text), Whitespace)
             remapped == Remap(line)
             stripped == Strip(remapped, StripChars)
             kept     == KeepOnly(stripped)
             t        == Strip(CollapseSpaces(kept), Whitespace)
         IN  IF LetterCount(t) < 3 THEN None ELSE Some(t)

\* clean_ocr_result applied to a value that may be None ("if not text")
CleanOpt(r) == IF r.some THEN clean_ocr_result(r.text) ELSE None

----------------------------------------------------------------------------
(* The recognition engine, pytesseract.image_to_string(image, config=config): *)
(* it returns a text, raises, or (no timeout is passed) never returns.        *)

Text(t) == [kind |-> "text", text |-> t]

Raise == [kind |-> "raise", text |-> <<>>]

Hang == [kind |-> "hang", text |-> <<>>]

\* the texts the engine is taken to return: nothing readable, and five titles
TxtJunk == <<"a", "b", "\n">>

TxtDashed == <<"5", "-", "a", "b", "c", "\n">>

TxtABCD == <<"A", "B", "C", "D">>

TxtAbcde == <<"a", "b", "c", "d", "e", "\n">>

TxtVwxyz == <<"v", "w", "x", "y", "z", "\n", "q">>

TxtBolt == <<"L", "i", "g", "h", "t", "n", "i", "n", "g", " ", "B", "o", "l", "t", "\n">>

EngineTexts == {TxtJunk, TxtDashed, TxtABCD, TxtAbcde, TxtVwxyz, TxtBolt}

Outcomes == {Raise, Hang} \cup {Text(t) : t \in EngineTexts}

\* the configs list of run_ocr
configs == <<"--psm 7 --oem 3", "--psm 6 --oem 3", "--psm 13 --oem 3", "--psm 7 --oem 1">>

\* the score run_ocr gives a cleaned text
Score(cleaned) ==
    LetterCount(cleaned) + 2 * UpperCount(cleaned)
        + (IF 5 <= Len(cleaned) /\ Len(cleaned) <= 40 THEN 5 ELSE 0)

\* results.sort(key=lambda x: x[1], reverse=True): stable, highest score first
RECURSIVE InsertDesc(_, _)
InsertDesc(sorted, x) ==
    IF sorted = <<>> THEN <<x>>
    ELSE IF Head(sorted).score >= x.score
         THEN <<Head(sorted)>> \o InsertDesc(Tail(sorted), x)
         ELSE <<x>> \o sorted

RECURSIVE SortDesc(_)
SortDesc(rs) ==
    IF rs = <<>> THEN <<>>
    ELSE InsertDesc(SortDesc(SubSeq(rs, 1, Len(rs) - 1)), rs[Len(rs)])

\* the config loop with one try around the whole loop, so that the first
\* engine error ends it (a faulty variant)
RECURSIVE RunOcrLoop_AbortOnError(_, _, _, _)
RunOcrLoop_AbortOnError(o, k, found, calls) ==
    IF k > Len(configs)
    THEN [status |-> "returned", results |-> found, calls |-> calls]
    ELSE CASE o[k].kind = "hang" ->
                [status |-> "hung", results |-> found,
                 calls |-> Append(calls, configs[k])]
           [] o[k].kind = "raise" ->
                [status |-> "returned", results |-> found,
                 calls |-> Append(calls, configs[k])]
           [] OTHER ->
                LET cleaned == clean_ocr_result(o[k].text)
                IN  RunOcrLoop_AbortOnError(o, k + 1,
                        IF cleaned.some
                        THEN Append(found, [text |-> cleaned.text,
                                              score |-> Score(cleaned.text)])
                        ELSE found,
                        Append(calls, configs[k]))

\* the loop "for config in configs" of run_ocr from config k on: o[k] is what
\* the engine does for config k; calls lists the configs the engine was invoked with
RECURSIVE RunOcrLoop(_, _, _, _)
RunOcrLoop(o, k, found, calls) ==
    IF k > Len(configs)
    THEN [status |-> "returned", results |-> found, calls |-> calls]
    ELSE CASE o[k].kind = "hang" ->
                [status |-> "hung", results |-> found,
                 calls |-> Append(calls, configs[k])]
           [] o[k].kind = "raise" ->
                RunOcrLoop(o, k + 1, found, Append(calls, configs[k]))
           [] OTHER ->
                LET cleaned == clean_ocr_result(o[k].text)
                IN  RunOcrLoop(o, k + 1,
                        IF cleaned.some
                        THEN Append(found, [text |-> cleaned.text,
                                              score |-> Score(cleaned.text)])
                        ELSE found,
                        Append(calls, configs[k]))

\* run_ocr(image): ret is the returned name (None when there are no results)
run_ocr(o) ==
    LET r == RunOcrLoop(o, 1, <<>>, <<>>)
    IN  [status |-> r.status,
         calls  |-> r.calls,
         ret    |-> IF r.status = "hung" \/ r.results = <<>>
                    THEN None
                    ELSE Some(SortDesc(r.results)[1].text)]

NoOcr == [status |-> "idle", calls |-> <<>>, ret |-> None]

----------------------------------------------------------------------------
(* SpecRunOcr: run_ocr on every combination of engine outcomes *)

CleanIdle ==
    /\ raw = <<>>
    /\ out1 = None
    /\ out2 = None
    /\ cstep = 0

\* no response yet
NoResponse == [code |-> 0, success |-> FALSE, error |-> "", has_cards |-> FALSE,
               cards |-> <<>>]

NoCell == [idx |-> 0, zero |-> TRUE, variance |-> 0, stages |-> {}]

PipeIdle ==
    /\ mode = "none"
    /\ pc = "idle"
    /\ avail = FALSE
    /\ decodable = FALSE
    /\ width = 0
    /\ height = 0
    /\ images = <<>>
    /\ si = 0
    /\ vi = 0
    /\ best_result = None
    /\ best_score = 0
    /\ ret = None
    /\ early = FALSE
    /\ top_score = 0
    /\ cells = <<>>
    /\ ci = 0
    /\ card_names = <<>>
    /\ origin = <<>>
    /\ cur = NoCell
    /\ ncards = 0
    /\ slot_error = 0
    /\ req = "ok"
    /\ results = <<>>
    /\ response = NoResponse
    /\ cache = {}
    /\ lookups = <<>>

pipeVars == <<mode, pc, avail, decodable, width, height, images, si, vi,
              best_result, best_score, ret, early, top_score, cells, ci,
              card_names, origin, cur, ncards, slot_error, req, results,
              response, cache, lookups>>

OrderIdle ==
    /\ pts = <<>>
    /\ rect = <<>>
    /\ rect2 = <<>>
    /\ gstep = 0

FindIdle ==
    /\ fpc = "idle"
    /\ preset = 0
    /\ contours = <<>>
    /\ left_out = <<>>
    /\ fc = 0
    /\ flog = <<>>
    /\ fret = "none"
    /\ img_to_use = "none"

\* lines 403-404: best_result = None, best_score = 0, nothing appended yet
NoLoop == [best_result |-> None, best_score |-> 0, done |-> FALSE, ret |-> None]

SelectIdle ==
    /\ one = "idle"
    /\ slot = NoLoop

RateIdle ==
    /\ clock = 0
    /\ last_request_time = 0
    /\ tpc = <<>>
    /\ tnow = <<>>
    /\ wake = <<>>
    /\ sent = <<>>

\* no request yet
NoHist == [prev |-> 0, asked |-> 0, adds |-> 0, other |-> FALSE, nreq |-> 0]

CollIdle ==
    /\ table = {}
    /\ next_id = 1
    /\ tx = <<>>
    /\ hist = NoHist

SideIdle ==
    /\ OrderIdle
    /\ FindIdle
    /\ SelectIdle
    /\ RateIdle
    /\ CollIdle

OcrIdle ==
    /\ outs = [k \in 1..Len(configs) |-> Raise]
    /\ ocr = NoOcr
    /\ ostep = 0

InitRunOcr ==
    /\ outs \in [1..Len(configs) -> Outcomes]
    /\ ocr = NoOcr
    /\ ostep = 0
    /\ CleanIdle
    /\ PipeIdle
    /\ SideIdle

RunOcrCall ==
    /\ ostep = 0
    /\ ocr' = run_ocr(outs)
    /\ ostep' = 1
    /\ UNCHANGED outs
    /\ UNCHANGED cleanVars
    /\ UNCHANGED pipeVars
    /\ UNCHANGED sideVars

NextRunOcr == RunOcrCall

SpecRunOcr == InitRunOcr /\ [][NextRunOcr]_vars

\* the configs whose engine call returned a text that survives cleaning
Candidates(o) ==
    {k \in 1..Len(configs) : o[k].kind = "text" /\ clean_ocr_result(o[k].text).some}

HangsAt(o) == {k \in 1..Len(configs) : o[k].kind = "hang"}

\* C9: an engine call that raises is "no candidate from this config": every
\* config is still invoked (up to a call that never returns), no exception leaves
\* run_ocr, and the result is a best-scoring candidate of the other configs
C9_RaiseIsNoCandidate ==
    ostep = 1 =>
        IF HangsAt(outs) # {}
        THEN /\ ocr.status = "hung"
             /\ ocr.calls = SubSeq(configs, 1, CHOOSE k \in HangsAt(outs) :
                                                \A j \in HangsAt(outs) : k <= j)
        ELSE /\ ocr.status = "returned"
             /\ ocr.calls = configs
             /\ ocr.ret.some <=> Candidates(outs) # {}
             /\ ocr.ret.some =>
                    \E k \in Candidates(outs) :
                        /\ ocr.ret = clean_ocr_result(outs[k].text)
                        /\ \A j \in Candidates(outs) :
                               Score(clean_ocr_result(outs[j].text).text)
                                   <= Score(ocr.ret.text)

\* C9 witness: the first config raised, a later one gave the returned name
C9_Witness ==
    /\ ostep = 1
    /\ outs[1].kind = "raise"
    /\ outs[2].kind = "raise"
    /\ ocr.status = "returned"
    /\ ocr.ret.some

----------------------------------------------------------------------------
(* SpecClean: clean_ocr_result on every raw text up to MaxLen characters *)

MaxLen == 5

CleanAlphabet == {"a", "0", "5", "-", " ", "\n", "."}

RawTexts == UNION {[1..n -> CleanAlphabet] : n \in 0..MaxLen}

InitClean ==
    /\ raw \in RawTexts
    /\ out1 = None
    /\ out2 = None
    /\ cstep = 0
    /\ OcrIdle
    /\ PipeIdle
    /\ SideIdle

CleanOnce ==
    /\ cstep = 0
    /\ out1' = clean_ocr_result(raw)
    /\ cstep' = 1
    /\ UNCHANGED <<raw, out2>>
    /\ UNCHANGED ocrVars
    /\ UNCHANGED pipeVars
    /\ UNCHANGED sideVars

CleanTwice ==
    /\ cstep = 1
    /\ out2' = CleanOpt(out1)
    /\ cstep' = 2
    /\ UNCHANGED <<raw, out1>>
    /\ UNCHANGED ocrVars
    /\ UNCHANGED pipeVars
    /\ UNCHANGED sideVars

NextClean == CleanOnce \/ CleanTwice

SpecClean == InitClean /\ [][NextClean]_vars

\* C2: cleaning is idempotent, clean(clean(x)) = clean(x) for every raw text x
C2_CleanIdempotent == cstep = 2 => out2 = out1

----------------------------------------------------------------------------
(* Image geometry *)

Max(a, b) == IF a >= b THEN a ELSE b

Min(a, b) == IF a <= b THEN a ELSE b

\* card_width, card_height of extract_card_perspective
card_width == 488

card_height == 680

\* resize_image_for_processing(image, max_dimension): the new <<width, height>>
resize_image_for_processing(w, h, max_dimension) ==
    IF Max(h, w) <= max_dimension THEN <<w, h>>
    ELSE <<(w * max_dimension) \div Max(h, w), (h * max_dimension) \div Max(h, w)>>

\* extract_title_region(card_image): the <<width, height>> of the crop; the
\* fractions 0.045, 0.115, 0.06 and 0.82 are taken exactly and int() as floor,
\* which is what the floating-point products give for every size in Widths
\* and Heights and for the cells cut from them
extract_title_region(w, h) ==
    LET y_start == (h * 45) \div 1000
        y_end   == (h * 115) \div 1000
        x_start == (w * 6) \div 100
        x_end   == (w * 82) \div 100
    IN  <<Max(x_end - x_start, 0), Max(y_end - y_start, 0)>>

\* image.size == 0
SizeZero(dims) == dims[1] = 0 \/ dims[2] = 0

\* the widths and heights of the images supplied
Widths == {40, 3000}

Heights == {8, 100, 300}

\* what find_card_in_image does: returns a warped card, returns None, or one
\* of its cv2 calls raises (none of them is inside a try)
FindOutcomes == {"card", "none", "raise"}

\* what preprocess_for_ocr does: returns its variants, or a cv2 call raises
PreprocessOutcomes == {"ok", "raise"}

\* the number of images preprocess_for_ocr returns
NumVariants == 5

\* processed_list[:3] of extract_cards_from_binder_page
BinderVariants == 3

\* "Good enough, return early": score >= 12
GoodEnough == 12

\* every result run_ocr can give, over all the engine's outcomes for the configs
OcrResults == {run_ocr(o) : o \in [1..Len(configs) -> Outcomes]}

\* the selection step both loops share: "score = letters; if score > best_score"
LetterScore(result) == IF result.some THEN LetterCount(result.text) ELSE 0

\* the comparison with >= in place of >, which lets a later tie win
Better_OrEqual(result) == result.some /\ LetterScore(result) >= best_score

Better(result) == result.some /\ LetterScore(result) > best_score

----------------------------------------------------------------------------
(* extract_card_name_from_image *)

\* the <<width, height>> of the image a strategy works on
StrategyImage(name) ==
    IF name = "extracted" THEN <<card_width, card_height>>
    ELSE resize_image_for_processing(width, height, 2000)

\* lines 271-299: the availability and decoding checks, then find_card_in_image
SingleStart ==
    /\ mode = "single"
    /\ pc = "start"
    /\ IF ~avail \/ ~decodable
       THEN /\ ret' = None
            /\ pc' = "done"
            /\ UNCHANGED <<images, si>>
       ELSE \E f \in FindOutcomes :
              IF f = "raise"
              THEN /\ pc' = "raised"
                   /\ UNCHANGED <<images, si, ret>>
              ELSE /\ images' = (IF f = "card" THEN <<"extracted">> ELSE <<>>)
                                    \o <<"full">>
                   /\ si' = 1
                   /\ pc' = "strategy"
                   /\ UNCHANGED ret
    /\ UNCHANGED <<early, top_score>>
    /\ UNCHANGED bestVars
    /\ UNCHANGED inputVars
    /\ UNCHANGED binderVars
    /\ UNCHANGED <<cleanVars, sideVars, ocrVars, routeVars>>

\* lines 301-312: the next strategy's title region and its preprocessing, or
\* line 330 when the strategies are exhausted
SingleStrategy ==
    /\ mode = "single"
    /\ pc = "strategy"
    /\ IF si > Len(images)
       THEN /\ ret' = best_result
            /\ pc' = "done"
            /\ UNCHANGED <<si, vi>>
       ELSE LET img   == StrategyImage(images[si])
                title == extract_title_region(img[1], img[2])
            IN  IF SizeZero(title)
                THEN /\ si' = si + 1
                     /\ UNCHANGED <<pc, vi, ret>>
                ELSE \E p \in PreprocessOutcomes :
                       IF p = "raise"
                       THEN /\ pc' = "raised"
                            /\ UNCHANGED <<si, vi, ret>>
                       ELSE /\ vi' = 1
                            /\ pc' = "ocr"
                            /\ UNCHANGED <<si, ret>>
    /\ UNCHANGED <<images, early, top_score, best_result, best_score>>
    /\ UNCHANGED inputVars
    /\ UNCHANGED binderVars
    /\ UNCHANGED <<cleanVars, sideVars, ocrVars, routeVars>>

\* lines 314-327: run_ocr on variant vi, the comparison and the early return
SingleOcr ==
    /\ mode = "single"
    /\ pc = "ocr"
    /\ \E r \in OcrResults :
         /\ ocr' = r
         /\ IF r.status = "hung"
            THEN /\ pc' = "hung"
                 /\ UNCHANGED <<si, vi, best_result, best_score, ret, early, top_score>>
            ELSE /\ best_result' = IF Better(r.ret) THEN r.ret ELSE best_result
                 /\ best_score' = IF Better(r.ret) THEN LetterScore(r.ret) ELSE best_score
                 /\ top_score' = IF r.ret.some
                                 THEN Max(top_score, Score(r.ret.text))
                                 ELSE top_score
                 /\ IF r.ret.some /\ LetterScore(r.ret) >= GoodEnough
                    THEN /\ ret' = best_result'
                         /\ early' = TRUE
                         /\ pc' = "done"
                         /\ UNCHANGED <<si, vi>>
                    ELSE /\ IF vi < NumVariants
                            THEN /\ vi' = vi + 1
                                 /\ UNCHANGED <<si, pc>>
                            ELSE /\ si' = si + 1
                                 /\ pc' = "strategy"
                                 /\ UNCHANGED vi
                         /\ UNCHANGED <<ret, early>>
    /\ UNCHANGED <<images, outs, ostep>>
    /\ UNCHANGED inputVars
    /\ UNCHANGED binderVars
    /\ UNCHANGED <<cleanVars, sideVars, routeVars>>

----------------------------------------------------------------------------
(* extract_cards_from_binder_page *)

\* the inward padding of detect_binder_grid
CellPadding == 15

\* the 3 x 3 grid
GridSide == 3

\* a Python slice bound a on a dimension of n pixels
SliceBound(a, n) == IF a < 0 THEN Max(a + n, 0) ELSE Min(a, n)

\* the length of image[start:stop] along a dimension of n pixels
SliceLen(start, stop, n) == Max(SliceBound(stop, n) - SliceBound(start, n), 0)

\* the grid walked with the columns in the outer loop (a faulty variant)
GridCell_ColumnMajor(k, w, h) ==
    LET col == (k - 1) \div GridSide
        row == (k - 1) % GridSide
        cell_width  == w \div GridSide
        cell_height == h \div GridSide
    IN  [row |-> row, col |-> col,
         w |-> SliceLen(col * cell_width + CellPadding,
                        (col + 1) * cell_width - CellPadding, w),
         h |-> SliceLen(row * cell_height + CellPadding,
                        (row + 1) * cell_height - CellPadding, h),
         x0 |-> SliceBound(col * cell_width + CellPadding, w),
         x1 |-> SliceBound((col + 1) * cell_width - CellPadding, w),
         y0 |-> SliceBound(row * cell_height + CellPadding, h),
         y1 |-> SliceBound((row + 1) * cell_height - CellPadding, h)]

\* the k-th cell detect_binder_grid appends (k from 1): "for row ... for col ...";
\* the cell is the pixels of the columns x0..x1-1 and the rows y0..y1-1
GridCell(k, w, h) ==
    LET row == (k - 1) \div GridSide
        col == (k - 1) % GridSide
        cell_width  == w \div GridSide
        cell_height == h \div GridSide
    IN  [row |-> row, col |-> col,
         w |-> SliceLen(col * cell_width + CellPadding,
                        (col + 1) * cell_width - CellPadding, w),
         h |-> SliceLen(row * cell_height + CellPadding,
                        (row + 1) * cell_height - CellPadding, h),
         x0 |-> SliceBound(col * cell_width + CellPadding, w),
         x1 |-> SliceBound((col + 1) * cell_width - CellPadding, w),
         y0 |-> SliceBound(row * cell_height + CellPadding, h),
         y1 |-> SliceBound((row + 1) * cell_height - CellPadding, h)]

\* detect_binder_grid(image): the list of cells
detect_binder_grid(w, h) == [k \in 1..(GridSide * GridSide) |-> GridCell(k, w, h)]

\* the threshold of is_empty_slot
EmptyVariance == 500

\* is_empty_slot with a lower threshold (a faulty variant)
is_empty_slot_LowThreshold(cell, variance) ==
    IF SizeZero(<<cell.w, cell.h>>) THEN TRUE ELSE variance < EmptyVariance - 100

\* is_empty_slot(image), variance being np.var of the cell's pixels
is_empty_slot(cell, variance) ==
    IF SizeZero(<<cell.w, cell.h>>) THEN TRUE ELSE variance < EmptyVariance

\* the pixel variances a cell is taken to have
Variances == {0, 499, 500}

\* at most MaxCards cells of a page are not blank
MaxCards == 2

\* [None] * 9
NineNones == [k \in 1..9 |-> None]

\* the position after the result of cell ci was appended: the next cell, or
\* "return card_names"
AfterCell == IF ci = Len(cells) THEN "done" ELSE "cell"

\* lines 370-380
BinderStart ==
    /\ mode = "binder"
    /\ pc = "start"
    /\ IF ~avail \/ ~decodable
       THEN /\ card_names' = NineNones
            /\ pc' = "done"
            /\ UNCHANGED <<cells, ci>>
       ELSE LET dims == resize_image_for_processing(width, height, 1500)
            IN  /\ cells' = detect_binder_grid(dims[1], dims[2])
                /\ ci' = 1
                /\ pc' = "cell"
                /\ UNCHANGED card_names
    /\ UNCHANGED <<origin, cur, ncards, slot_error>>
    /\ UNCHANGED <<singleVars, bestVars, inputVars, cleanVars, sideVars, ocrVars, routeVars>>

\* lines 383-404 for cell ci: the emptiness test, find_card_in_image, the title
\* region and preprocess_for_ocr
BinderCell ==
    /\ mode = "binder"
    /\ pc = "cell"
    /\ LET cell == cells[ci]
           here == <<cell.row, cell.col>>
           zero == SizeZero(<<cell.w, cell.h>>)
       IN  \E variance \in (IF zero THEN {0} ELSE Variances) :
             /\ (variance >= EmptyVariance /\ ~zero) => ncards < MaxCards
             /\ IF is_empty_slot(cell, variance)
                THEN /\ card_names' = Append(card_names, None)
                     /\ origin' = Append(origin, here)
                     /\ cur' = [idx |-> ci, zero |-> zero, variance |-> variance,
                                stages |-> {}]
                     /\ pc' = AfterCell
                     /\ ci' = ci + 1
                     /\ UNCHANGED <<ncards, slot_error, bestVars>>
                ELSE \E f \in FindOutcomes, p \in PreprocessOutcomes :
                       LET img   == IF f = "card" THEN <<card_width, card_height>>
                                    ELSE <<cell.w, cell.h>>
                           title == extract_title_region(img[1], img[2])
                       IN  /\ ncards' = ncards + 1
                           /\ CASE f = "raise" ->
                                     /\ cur' = [idx |-> ci, zero |-> zero,
                                                variance |-> variance,
                                                stages |-> {"localize"}]
                                     /\ slot_error' = ci
                                     /\ pc' = "raised"
                                     /\ UNCHANGED <<card_names, origin, ci, bestVars>>
                                [] f # "raise" /\ SizeZero(title) ->
                                     /\ cur' = [idx |-> ci, zero |-> zero,
                                                variance |-> variance,
                                                stages |-> {"localize", "title"}]
                                     /\ card_names' = Append(card_names, None)
                                     /\ origin' = Append(origin, here)
                                     /\ pc' = AfterCell
                                     /\ ci' = ci + 1
                                     /\ UNCHANGED <<slot_error, bestVars>>
                                [] f # "raise" /\ ~SizeZero(title) /\ p = "raise" ->
                                     /\ cur' = [idx |-> ci, zero |-> zero,
                                                variance |-> variance,
                                                stages |-> {"localize", "title",
                                                            "preprocess"}]
                                     /\ slot_error' = ci
                                     /\ pc' = "raised"
                                     /\ UNCHANGED <<card_names, origin, ci, bestVars>>
                                [] OTHER ->
                                     /\ cur' = [idx |-> ci, zero |-> zero,
                                                variance |-> variance,
                                                stages |-> {"localize", "title",
                                                            "preprocess"}]
                                     /\ best_result' = None
                                     /\ best_score' = 0
                                     /\ vi' = 1
                                     /\ pc' = "binder_ocr"
                                     /\ UNCHANGED <<card_names, origin, ci, slot_error>>
    /\ UNCHANGED cells
    /\ UNCHANGED <<singleVars, inputVars, cleanVars, sideVars, ocrVars, routeVars>>

\* lines 406-415 for cell ci: run_ocr on variant vi and, after the last of the
\* first three variants, the append of best_result
BinderOcr ==
    /\ mode = "binder"
    /\ pc = "binder_ocr"
    /\ \E r \in OcrResults :
         /\ ocr' = r
         /\ cur' = [cur EXCEPT !.stages = @ \cup {"engine"}]
         /\ IF r.status = "hung"
            THEN /\ pc' = "hung"
                 /\ UNCHANGED <<card_names, origin, ci, bestVars>>
            ELSE /\ best_result' = IF Better(r.ret) THEN r.ret ELSE best_result
                 /\ best_score' = IF Better(r.ret) THEN LetterScore(r.ret) ELSE best_score
                 /\ IF vi < BinderVariants
                    THEN /\ vi' = vi + 1
                         /\ UNCHANGED <<card_names, origin, ci, pc>>
                    ELSE /\ card_names' = Append(card_names, best_result')
                         /\ origin' = Append(origin, <<cells[ci].row, cells[ci].col>>)
                         /\ pc' = AfterCell
                         /\ ci' = ci + 1
                         /\ UNCHANGED vi
    /\ UNCHANGED <<cells, ncards, slot_error, outs, ostep>>
    /\ UNCHANGED <<singleVars, inputVars, cleanVars, sideVars, routeVars>>

----------------------------------------------------------------------------
(* vision.py: clean_card_name and extract_all_text_vision *)

\* the characters of the class [WUBRG0-9X/] of the mana-symbol pattern
ManaChars == {"W", "U", "B", "R", "G", "X", "/",
              "0", "1", "2", "3", "4", "5", "6", "7", "8", "9"}

\* re.sub(r'\{[WUBRG0-9X/]+\}', '', candidate)
RECURSIVE RemoveMana(_)
RemoveMana(t) ==
    IF t = <<>> THEN t
    ELSE LET rest == Tail(t)
             body == LStrip(rest, ManaChars)
         IN  IF /\ Head(t) = "{"
                /\ Len(body) < Len(rest)
                /\ body # <<>>
                /\ Head(body) = "}"
             THEN RemoveMana(Tail(body))
             ELSE <<Head(t)>> \o RemoveMana(rest)

\* what follows the first "\n" of a text (empty when there is none)
RECURSIVE AfterFirstLine(_)
AfterFirstLine(t) ==
    IF t = <<>> THEN t
    ELSE IF Head(t) = "\n" THEN Tail(t) ELSE AfterFirstLine(Tail(t))

\* [line.strip() for line in text.split('\n') if line.strip()]: its first
\* element, or None when the list is empty
RECURSIVE FirstMeaningfulLine(_)
FirstMeaningfulLine(t) ==
    IF t = <<>> THEN None
    ELSE LET line == Strip(FirstLine(t), Whitespace)
         IN  IF line # <<>> THEN Some(line)
             ELSE FirstMeaningfulLine(AfterFirstLine(t))

\* the length cap of clean_card_name
MaxNameLen == 50

\* clean_card_name(text)
clean_card_name(text) ==
    LET first == FirstMeaningfulLine(text)
    IN  IF ~first.some THEN None
        ELSE LET nomana   == RemoveMana(first.text)
                 stripped == Strip(nomana, StripChars)
                 kept     == KeepOnly(stripped)
                 t        == Strip(CollapseSpaces(kept), Whitespace)
                 capped   == IF Len(t) > MaxNameLen THEN SubSeq(t, 1, MaxNameLen) ELSE t
             IN  IF LetterCount(t) < 3 THEN None
                 ELSE IF capped = <<>> THEN None ELSE Some(capped)

\* what vision_client.text_detection gives for a cell: an exception, a
\* response with an error message, no annotation, or the detected text
VTxtJunk == <<"4", "2", "\n">>

VTxtBolt == <<"\n", "L", "i", "g", "h", "t", "n", "i", "n", "g", " ", "B", "o", "l", "t",
              "\n", "I", "n", "s", "t", "a", "n", "t">>

VTxtShock == <<"{", "R", "}", " ", "S", "h", "o", "c", "k", "\n">>

\* a first line of 53 characters with its 3 letters at both ends
VTxtLong == <<"a">> \o [i \in 1..MaxNameLen |-> "-"] \o <<"b", "c", "\n">>

VisionTexts == {VTxtJunk, VTxtBolt, VTxtShock, VTxtLong}

VisionOutcomes ==
    {[kind |-> k, text |-> <<>>] : k \in {"raise", "error", "notext"}}
        \cup {Text(t) : t \in VisionTexts}

\* extract_all_text_vision(image_path): (card_name, full_text) or (None, None)
extract_all_text_vision(vo) ==
    IF vo.kind = "text"
    THEN [card_name |-> clean_card_name(vo.text), ocr_text |-> Some(vo.text)]
    ELSE [card_name |-> None, ocr_text |-> None]

\* every (card_name, full_text) extract_all_text_vision can return
VisionResults == {extract_all_text_vision(vo) : vo \in VisionOutcomes}

----------------------------------------------------------------------------
(* scryfall.py: get_card_by_name behind its lru_cache *)

\* what the request of get_card_by_name meets: a card, a 404, a
\* requests.RequestException (network error, timeout, error status), or a
\* payload on which response.json() / _format_card raise another exception
LookupOutcomes == {"card", "404", "request_exception", "bad_payload"}

\* the body of get_card_by_name(name), lines 104-121
get_card_by_name_body(name, lo) ==
    CASE lo = "card"              -> [raised |-> FALSE, value |-> Some(name)]
      [] lo = "404"               -> [raised |-> FALSE, value |-> None]
      [] lo = "request_exception" -> [raised |-> FALSE, value |-> None]
      [] OTHER                    -> [raised |-> TRUE, value |-> None]

Cached(name) == \E e \in cache : e.name = name

CachedValue(name) == (CHOOSE e \in cache : e.name = name).value

\* get_card_by_name(name) as called: a cached value is returned without a
\* request; a returned value (None included) is cached, an exception is not
get_card_by_name(name, lo) ==
    IF Cached(name)
    THEN [raised |-> FALSE, value |-> CachedValue(name), store |-> cache]
    ELSE LET r == get_card_by_name_body(name, lo)
         IN  [raised |-> r.raised, value |-> r.value,
              store  |-> IF r.raised THEN cache
                         ELSE cache \cup {[name |-> name, value |-> r.value]}]

----------------------------------------------------------------------------
(* scan.py: scan_binder_page *)

\* Python's None as an element of 'cards'
NoneSlot == [position |-> -1, success |-> FALSE, card |-> None, ocr_text |-> None,
             error |-> "<None>"]

\* the k-th cell split_binder_image writes (k from 1): rows outside, no padding
SplitCell(k, w, h) ==
    [row |-> (k - 1) \div GridSide, col |-> (k - 1) % GridSide,
     w |-> w \div GridSide, h |-> h \div GridSide]

\* split_binder_image(image_path, rows=3, cols=3): [] when imread fails
split_binder_image(w, h) ==
    IF ~decodable THEN <<>>
    ELSE [k \in 1..(GridSide * GridSide) |-> SplitCell(k, w, h)]

\* ocr_text[:50] if ocr_text else None
OcrTextHead(t) ==
    IF t.some /\ t.text # <<>>
    THEN Some(SubSeq(t.text, 1, Min(Len(t.text), 50)))
    ELSE None

\* the entry appended for cell ci (position ci - 1), lines 170-194
SlotEntry(seen, card) ==
    IF seen.card_name.some
    THEN IF card.some
         THEN [position |-> ci - 1, success |-> TRUE, card |-> card,
               ocr_text |-> seen.card_name, error |-> ""]
         ELSE [position |-> ci - 1, success |-> FALSE, card |-> None,
               ocr_text |-> seen.card_name, error |-> "Card not found"]
    ELSE [position |-> ci - 1, success |-> FALSE, card |-> None,
          ocr_text |-> OcrTextHead(seen.ocr_text),
          error |-> "Empty slot or unreadable"]

Identified(rs) == Cardinality({k \in 1..Len(rs) : rs[k].success})

\* what the request's 'image' part can be like
ReqKinds == {"ok", "no_file", "no_name", "bad_type"}

\* lines 129-162: the checks, and split_binder_image
RouteStart ==
    /\ mode = "route"
    /\ pc = "start"
    /\ CASE ~avail ->
              /\ response' = [code |-> 503, success |-> FALSE,
                              error |-> "Google Cloud Vision not configured",
                              has_cards |-> FALSE, cards |-> <<>>]
              /\ pc' = "done"
              /\ UNCHANGED <<cells, ci>>
         [] avail /\ req # "ok" ->
              /\ response' = [code |-> 400, success |-> FALSE, error |-> req,
                              has_cards |-> FALSE, cards |-> <<>>]
              /\ pc' = "done"
              /\ UNCHANGED <<cells, ci>>
         [] avail /\ req = "ok" /\ Len(split_binder_image(width, height)) # 9 ->
              /\ response' = [code |-> 200, success |-> FALSE,
                              error |-> "Failed to split binder image into grid",
                              has_cards |-> TRUE,
                              cards |-> [k \in 1..9 |-> NoneSlot]]
              /\ pc' = "done"
              /\ UNCHANGED <<cells, ci>>
         [] OTHER ->
              /\ cells' = split_binder_image(width, height)
              /\ ci' = 1
              /\ pc' = "route_cell"
              /\ UNCHANGED response
    /\ UNCHANGED <<card_names, origin, cur, ncards, slot_error, req, results, cache,
                   lookups>>
    /\ UNCHANGED <<singleVars, bestVars, inputVars, cleanVars, sideVars, ocrVars>>

\* lines 167-203 for cell ci: extract_all_text_vision, get_card_by_name, the
\* entry appended and, after the last cell, the response
RouteCell ==
    /\ mode = "route"
    /\ pc = "route_cell"
    /\ \E seen \in VisionResults :
       \E lo \in (IF seen.card_name.some /\ ~Cached(seen.card_name.text)
                  THEN LookupOutcomes ELSE {"card"}) :
         LET looked == IF seen.card_name.some
                       THEN get_card_by_name(seen.card_name.text, lo)
                       ELSE [raised |-> FALSE, value |-> None, store |-> cache]
             rs     == Append(results, SlotEntry(seen, looked.value))
         IN  /\ seen.ocr_text.some => ncards < MaxCards
             /\ ncards' = IF seen.ocr_text.some THEN ncards + 1 ELSE ncards
             /\ cache' = looked.store
             /\ lookups' = IF seen.card_name.some
                           THEN Append(lookups,
                                  [name |-> seen.card_name.text,
                                   met  |-> IF Cached(seen.card_name.text)
                                            THEN "cached" ELSE lo])
                           ELSE lookups
             /\ IF looked.raised
                THEN /\ slot_error' = ci
                     /\ pc' = "raised"
                     /\ response' = [code |-> 500, success |-> FALSE,
                                     error |-> "unhandled exception",
                                     has_cards |-> FALSE, cards |-> <<>>]
                     /\ UNCHANGED <<results, origin, ci>>
                ELSE /\ results' = rs
                     /\ origin' = Append(origin, <<cells[ci].row, cells[ci].col>>)
                     /\ ci' = ci + 1
                     /\ UNCHANGED slot_error
                     /\ IF ci = Len(cells)
                        THEN /\ pc' = "done"
                             /\ response' = [code |-> 200,
                                             success |-> Identified(rs) > 0,
                                             error |-> "",
                                             has_cards |-> TRUE, cards |-> rs]
                        ELSE UNCHANGED <<pc, response>>
    /\ UNCHANGED <<cells, card_names, cur, req>>
    /\ UNCHANGED <<singleVars, bestVars, inputVars, cleanVars, sideVars, ocrVars>>

----------------------------------------------------------------------------
(* Spec: the recognition entry points on every supplied image *)

Init ==
    /\ mode \in {"single", "binder", "route"}
    /\ pc = "start"
    /\ avail \in BOOLEAN
    /\ decodable \in BOOLEAN
    /\ width \in Widths
    /\ height \in Heights
    /\ images = <<>>
    /\ si = 0
    /\ vi = 0
    /\ best_result = None
    /\ best_score = 0
    /\ ret = None
    /\ early = FALSE
    /\ top_score = 0
    /\ cells = <<>>
    /\ ci = 0
    /\ card_names = <<>>
    /\ origin = <<>>
    /\ cur = NoCell
    /\ ncards = 0
    /\ slot_error = 0
    /\ req \in (IF mode = "route" THEN ReqKinds ELSE {"ok"})
    /\ results = <<>>
    /\ response = NoResponse
    /\ cache = {}
    /\ lookups = <<>>
    /\ CleanIdle
    /\ OcrIdle
    /\ SideIdle

Next ==
    \/ SingleStart
    \/ SingleStrategy
    \/ SingleOcr
    \/ BinderStart
    \/ BinderCell
    \/ BinderOcr
    \/ RouteStart
    \/ RouteCell

Spec == Init /\ [][Next]_vars

\* C1: without an early exit, the name extract_card_name_from_image returns is
\* a candidate whose run_ocr score is maximal over all candidates produced
C1_ReturnsMaxScore ==
    (mode = "single" /\ pc = "done" /\ ~early) =>
        /\ ret.some <=> top_score > 0
        /\ ret.some => Score(ret.text) = top_score

\* the <<row, col>> the k-th result (index k - 1) belongs to in a row-major grid
RowMajor(k) == <<(k - 1) \div 3, (k - 1) % 3>>

\* C3: a name returned by run_ocr, returned by extract_card_name_from_image or
\* put in a binder slot always has at least 3 alphabetic characters
C3_AtLeastThreeLetters ==
    /\ ocr.ret.some => LetterCount(ocr.ret.text) >= 3
    /\ best_result.some => LetterCount(best_result.text) >= 3
    /\ ret.some => LetterCount(ret.text) >= 3
    /\ \A k \in 1..Len(card_names) :
           card_names[k].some => LetterCount(card_names[k].text) >= 3

\* C3 witness: a binder page returned with a slot holding a 3-letter name
C3_Witness ==
    /\ mode = "binder"
    /\ pc = "done"
    /\ \E k \in 1..Len(card_names) :
           card_names[k].some /\ LetterCount(card_names[k].text) = 3

C5_EmptySlotSkipped ==
    (mode = "binder" /\ cur.idx > 0 /\ (cur.zero \/ cur.variance < 500)) =>
        /\ cur.stages = {}
        /\ Len(card_names) >= cur.idx
        /\ ~card_names[cur.idx].some

\* C5 witness: after a recognised cell, a cell of variance 499 was skipped
C5_Witness ==
    /\ mode = "binder"
    /\ cur.idx > 1
    /\ ~cur.zero
    /\ cur.variance = 499
    /\ card_names[cur.idx - 1].some

\* C6: with the engine unavailable the batch completes and every slot result
\* is an explicit "unavailable" marker, not the None of an empty or unreadable
\* slot
C6_UnavailableIsExplicit ==
    (mode = "binder" /\ pc = "done" /\ ~avail) =>
        /\ Len(card_names) = 9
        /\ \A k \in 1..Len(card_names) : card_names[k] # None

\* what extract_cards_from_binder_page returns for a decodable page whose nine
\* cells are all empty or unreadable
AllAbsentPage == [k \in 1..9 |-> None]

\* C7: an undecodable image yields one batch-level error that differs from the
\* result of a decodable page whose slots are all empty or unreadable
C7_UndecodableIsDistinct ==
    /\ (mode = "binder" /\ pc = "done" /\ avail /\ ~decodable) =>
           card_names # AllAbsentPage
    /\ (mode = "route" /\ pc = "done" /\ avail /\ req = "ok" /\ ~decodable) =>
           response.error # ""

\* C8: an error raised while one slot is processed never ends the batch
C8_SlotErrorsContained ==
    mode \in {"binder", "route"} => (slot_error = 0 /\ pc # "raised")

\* C10: an engine call that never returns is cut off by a timeout, so that the
\* entry point always goes on until it completes
C10_EngineCallsBounded ==
    mode \in {"single", "binder", "route"} =>
        (pc \in {"done", "raised"} \/ ENABLED Next)

----------------------------------------------------------------------------
(* SpecOrder: order_points on every 4 points of a small grid.  A point is  *)
(* <<x, y>>; pts is the array in its given order.                          *)

\* largest coordinate of the points tried
MaxCoord == 2

Coords == 0..MaxCoord

Points == Coords \X Coords

\* pts.sum(axis=1): x + y of each point
SumXY(p) == [i \in 1..Len(p) |-> p[i][1] + p[i][2]]

\* np.diff(pts, axis=1): y - x of each point
DiffYX(p) == [i \in 1..Len(p) |-> p[i][2] - p[i][1]]

\* x - y of each point, the difference taken the other way round
DiffXY(p) == [i \in 1..Len(p) |-> p[i][1] - p[i][2]]

\* np.argmin: the first index of the smallest value
ArgMin(f) ==
    CHOOSE i \in 1..Len(f) :
        /\ \A j \in 1..Len(f) : f[i] <= f[j]
        /\ \A j \in 1..(i - 1) : f[j] > f[i]

\* np.argmax: the first index of the largest value
ArgMax(f) ==
    CHOOSE i \in 1..Len(f) :
        /\ \A j \in 1..Len(f) : f[i] >= f[j]
        /\ \A j \in 1..(i - 1) : f[j] < f[i]

\* order_points with diff computed as x - y instead of np.diff's y - x
order_points_XMinusY(p) ==
    <<p[ArgMin(SumXY(p))], p[ArgMin(DiffXY(p))],
      p[ArgMax(SumXY(p))], p[ArgMax(DiffXY(p))]>>

\* lines 103-115; rect[0..3] of the code are the elements 1..4 here
order_points(p) ==
    <<p[ArgMin(SumXY(p))], p[ArgMin(DiffYX(p))],
      p[ArgMax(SumXY(p))], p[ArgMax(DiffYX(p))]>>

InitOrder ==
    /\ pts \in [1..4 -> Points]
    /\ rect = <<>>
    /\ rect2 = <<>>
    /\ gstep = 0
    /\ CleanIdle
    /\ OcrIdle
    /\ PipeIdle
    /\ FindIdle
    /\ SelectIdle
    /\ RateIdle
    /\ CollIdle

OrderOnce ==
    /\ gstep = 0
    /\ rect' = order_points(pts)
    /\ gstep' = 1
    /\ UNCHANGED <<pts, rect2>>
    /\ UNCHANGED <<cleanVars, ocrVars, pipeVars, findVars, selectVars, rateVars, collVars>>

OrderTwice ==
    /\ gstep = 1
    /\ rect2' = order_points(rect)
    /\ gstep' = 2
    /\ UNCHANGED <<pts, rect>>
    /\ UNCHANGED <<cleanVars, ocrVars, pipeVars, findVars, selectVars, rateVars, collVars>>

NextOrder == OrderOnce \/ OrderTwice

SpecOrder == InitOrder /\ [][NextOrder]_vars

\* the 4 input points are pairwise distinct
Distinct4 == \A i, j \in 1..4 : i # j => pts[i] # pts[j]

\* C11: order_points is idempotent, order_points(order_points(p)) =
\* order_points(p) for every set of 4 points p, ties included
C11_OrderIdempotent == (gstep = 2 /\ Distinct4) => rect2 = rect

\* pts[i] is the first point of pts at which the sequence f is smallest
FirstMin(f, i) ==
    /\ \A j \in 1..4 : f[i] <= f[j]
    /\ \A j \in 1..4 : f[j] = f[i] => i <= j

\* pts[i] is the first point of pts at which the sequence f is largest
FirstMax(f, i) ==
    /\ \A j \in 1..4 : f[i] >= f[j]
    /\ \A j \in 1..4 : f[j] = f[i] => i <= j

\* C12 as stated: order_points puts the point of minimum x+y at index 0, of
\* maximum x+y at index 2, of minimum x-y at index 1 (top-right) and of
\* maximum x-y at index 3 (bottom-left), ties going to the first point
C12_OrderByXMinusY ==
    gstep >= 1 =>
        /\ \E i \in 1..4 : FirstMin(SumXY(pts), i) /\ rect[1] = pts[i]
        /\ \E i \in 1..4 : FirstMax(SumXY(pts), i) /\ rect[3] = pts[i]
        /\ \E i \in 1..4 : FirstMin(DiffXY(pts), i) /\ rect[2] = pts[i]
        /\ \E i \in 1..4 : FirstMax(DiffXY(pts), i) /\ rect[4] = pts[i]

\* C12 amended: order_points puts the point of minimum x+y at index 0, of
\* maximum x+y at index 2, of maximum x-y at index 1 (top-right) and of
\* minimum x-y at index 3 (bottom-left), ties going to the first point
C12_OrderByYMinusX ==
    gstep >= 1 =>
        /\ \E i \in 1..4 : FirstMin(SumXY(pts), i) /\ rect[1] = pts[i]
        /\ \E i \in 1..4 : FirstMax(SumXY(pts), i) /\ rect[3] = pts[i]
        /\ \E i \in 1..4 : FirstMax(DiffXY(pts), i) /\ rect[2] = pts[i]
        /\ \E i \in 1..4 : FirstMin(DiffXY(pts), i) /\ rect[4] = pts[i]

\* an upright rectangle given out of order, and ordered
C12_Witness ==
    /\ gstep >= 1
    /\ pts = <<<<2, 2>>, <<0, 0>>, <<0, 2>>, <<2, 0>>>>
    /\ rect = <<<<0, 0>>, <<2, 0>>, <<2, 2>>, <<0, 2>>>>

\* C20: for 4 pairwise-distinct points order_points returns a permutation of
\* them, each input point appearing exactly once in the output
C20_OrderIsPermutation ==
    (gstep >= 1 /\ Distinct4) =>
        \A i \in 1..4 : Cardinality({k \in 1..4 : rect[k] = pts[i]}) = 1

----------------------------------------------------------------------------
(* SpecSelect: the two selection loops on the same image.  The image is a  *)
(* binder cell in which find_card_in_image locates nothing, so that        *)
(* extract_card_name_from_image has the one strategy "full" and            *)
(* extract_cards_from_binder_page goes on with the cell: both take the     *)
(* title region of the same image and preprocess_for_ocr gives both the    *)
(* same variants.  Each step is run_ocr on the next variant, with what the *)
(* engine does for its 4 configs, fed to each loop that still runs.        *)

\* two texts of equal score and an engine error, for every config
TieVectors == [1..Len(configs) -> {Text(TxtAbcde), Text(TxtVwxyz), Raise}]

\* vectors with a text of 12 letters or more, or of score 12 with 4 letters
LongVectors ==
    {<<Text(TxtBolt), Raise, Raise, Raise>>,
     <<Raise, Text(TxtAbcde), Raise, Text(TxtBolt)>>,
     <<Text(TxtABCD), Raise, Text(TxtJunk), Raise>>,
     <<Text(TxtAbcde), Text(TxtABCD), Raise, Raise>>}

SelVectors == TieVectors \cup LongVectors

InitSelect ==
    /\ outs = [k \in 1..Len(configs) |-> Raise]
    /\ ocr = NoOcr
    /\ ostep = 0
    /\ mode = "none"
    /\ pc = "select"
    /\ vi = 1
    /\ best_result = None
    /\ best_score = 0
    /\ ret = None
    /\ early = FALSE
    /\ one = "running"
    /\ slot = NoLoop
    /\ avail = FALSE
    /\ decodable = FALSE
    /\ width = 0
    /\ height = 0
    /\ images = <<>>
    /\ si = 0
    /\ top_score = 0
    /\ cells = <<>>
    /\ ci = 0
    /\ card_names = <<>>
    /\ origin = <<>>
    /\ cur = NoCell
    /\ ncards = 0
    /\ slot_error = 0
    /\ req = "ok"
    /\ results = <<>>
    /\ response = NoResponse
    /\ cache = {}
    /\ lookups = <<>>
    /\ CleanIdle
    /\ OrderIdle
    /\ FindIdle
    /\ RateIdle
    /\ CollIdle

\* ocr.py lines 406-415: one turn of "for processed in processed_list[:3]",
\* and the append after the last turn
SlotTurn(b, result) ==
    LET better == result.some /\ LetterScore(result) > b.best_score
        br == IF better THEN result ELSE b.best_result
        bs == IF better THEN LetterScore(result) ELSE b.best_score
    IN  IF b.done \/ vi > BinderVariants
        THEN b
        ELSE [best_result |-> br, best_score |-> bs,
              done |-> (vi = BinderVariants),
              ret |-> IF vi = BinderVariants THEN br ELSE None]

\* ocr.py lines 314-330 for the single loop, lines 406-415 for the cell's
SelectVariant ==
    /\ pc = "select"
    /\ vi <= NumVariants
    /\ one = "running" \/ ~slot.done
    /\ \E o \in SelVectors :
         /\ outs' = o
         /\ ocr' = run_ocr(o)
         /\ ostep' = 1
         /\ IF one = "running"
            THEN /\ best_result' = IF Better(ocr'.ret) THEN ocr'.ret ELSE best_result
                 /\ best_score' = IF Better(ocr'.ret) THEN LetterScore(ocr'.ret)
                                   ELSE best_score
                 /\ IF ocr'.ret.some /\ LetterScore(ocr'.ret) >= GoodEnough
                    THEN /\ ret' = best_result'
                         /\ early' = TRUE
                         /\ one' = "done"
                    ELSE IF vi = NumVariants
                         THEN /\ ret' = best_result'
                              /\ one' = "done"
                              /\ UNCHANGED early
                         ELSE UNCHANGED <<ret, early, one>>
            ELSE UNCHANGED <<best_result, best_score, ret, early, one>>
         /\ slot' = SlotTurn(slot, ocr'.ret)
    /\ vi' = vi + 1
    /\ UNCHANGED <<mode, pc, images, si, top_score>>
    /\ UNCHANGED <<avail, decodable, width, height>>
    /\ UNCHANGED binderVars
    /\ UNCHANGED <<cleanVars, routeVars, orderVars, findVars, rateVars, collVars>>

NextSelect == SelectVariant

SpecSelect == InitSelect /\ [][NextSelect]_vars

\* the cleaned candidate of config k in the last run_ocr call
Cand(k) == IF outs[k].kind = "text" THEN clean_ocr_result(outs[k].text) ELSE None

\* config k gave the candidate run_ocr returned: its score is the highest and
\* no earlier config's candidate has that score
EarliestBest(k) ==
    /\ Cand(k).some
    /\ \A j \in 1..Len(configs) :
         Cand(j).some => Score(Cand(j).text) <= Score(Cand(k).text)
    /\ \A j \in 1..(k - 1) :
         Cand(j).some => Score(Cand(j).text) < Score(Cand(k).text)

C14_EarlyExit ==
    /\ (ostep = 1 =>
         \A k \in 1..Len(configs) :
            ((Cand(k).some /\ Score(Cand(k).text) >= GoodEnough)
                => Len(ocr.calls) <= k))
    /\ (one = "done" /\ early) => (ret.some /\ Score(ret.text) >= GoodEnough)

\* C15: the name put in a non-empty cell's slot is the name the single-card
\* pipeline selects for the same cell image and the same engine outputs
C15_SlotAsSingle == (one = "done" /\ slot.done) => slot.ret = ret

----------------------------------------------------------------------------
(* SpecFind: find_card_in_image on a binder cell, and the caller's choice  *)
(* of the image to go on with.  A contour is [area, id], id its place in   *)
(* what cv2.findContours returned; the polygon of a contour is shown when  *)
(* the loop comes to it.                                                    *)

\* line 61: the (canny_low, canny_high) pairs, in the order of the loop
Presets == <<<<30, 100>>, <<50, 150>>, <<75, 200>>>>

\* line 77: contours[:5]
TopContours == 5

\* the most contours cv2.findContours returns for a preset
MaxContours == 6

Areas == {1, 2}

\* the areas of the contours of one preset, in the order cv2.findContours gives
ContourLists == UNION {[1..n -> Areas] : n \in 0..MaxContours}

\* line 75: sorted(contours, key=cv2.contourArea, reverse=True), stable
RECURSIVE InsertByArea(_, _)
InsertByArea(sorted, x) ==
    IF sorted = <<>> THEN <<x>>
    ELSE IF Head(sorted).area >= x.area
         THEN <<Head(sorted)>> \o InsertByArea(Tail(sorted), x)
         ELSE <<x>> \o sorted

RECURSIVE SortByArea(_)
SortByArea(cs) ==
    IF cs = <<>> THEN <<>>
    ELSE InsertByArea(SortByArea(SubSeq(cs, 1, Len(cs) - 1)), cs[Len(cs)])

\* the (w, h) of cv2.minAreaRect tried
RectSizes == {<<0, 10>>, <<63, 88>>, <<88, 63>>, <<60, 100>>, <<100, 80>>}

\* lines 89-91: 0.6 < min(w, h) / max(w, h) < 0.8
InBand(w, h) ==
    /\ 10 * Min(w, h) > 6 * Max(w, h)
    /\ 10 * Min(w, h) < 8 * Max(w, h)

\* lines 83-91: a polygon the code hands to extract_card_perspective
CardShaped(poly) ==
    /\ poly.n = 4
    /\ poly.size[1] # 0
    /\ poly.size[2] # 0
    /\ InBand(poly.size[1], poly.size[2])

\* what approxPolyDP, minAreaRect and the perspective transform give for a
\* contour: the number of vertices, the rectangle, and whether the transform
\* of extract_card_perspective raises (it is tried on card-shaped polygons only)
Polygons ==
    {poly \in [n : {3, 4}, size : RectSizes, warp : {"ok", "raise"}] :
        poly.warp = "raise" => CardShaped(poly)}

\* lines 118-140: the warped card, or None when anything in the try raises
extract_card_perspective(poly) == IF poly.warp = "ok" THEN "warped" ELSE "none"

NoFind == [card |-> "none", from |-> <<>>]

NoLog == [presets |-> <<>>, areas |-> <<>>, band |-> <<>>, failed |-> FALSE]

InitFind ==
    /\ fpc = "start"
    /\ preset = 0
    /\ contours = <<>>
    /\ left_out = <<>>
    /\ fc = 0
    /\ flog = NoLog
    /\ fret = NoFind
    /\ img_to_use = "none"
    /\ CleanIdle
    /\ OcrIdle
    /\ PipeIdle
    /\ OrderIdle
    /\ SelectIdle
    /\ RateIdle
    /\ CollIdle

\* lines 51-58: the resize, the grayscale and the blur
FindStart ==
    /\ fpc = "start"
    /\ preset' = 1
    /\ fpc' = "canny"
    /\ UNCHANGED <<contours, left_out, fc, flog, fret, img_to_use>>
    /\ UNCHANGED <<cleanVars, ocrVars, pipeVars, orderVars, selectVars, rateVars, collVars>>

\* lines 61-75 for the preset at hand, or line 100 after the last one
FindPreset ==
    /\ fpc = "canny"
    /\ IF preset > Len(Presets)
       THEN /\ fret' = NoFind
            /\ fpc' = "returned"
            /\ UNCHANGED <<preset, contours, left_out, fc, flog>>
       ELSE \E areas \in ContourLists :
              LET found == [i \in 1..Len(areas) |-> [area |-> areas[i], id |-> i]]
                  sorted == SortByArea(found)
                  top == Min(Len(sorted), TopContours)
              IN  /\ flog' = [flog EXCEPT !.presets = Append(@, Presets[preset]),
                                           !.areas = <<>>]
                  /\ IF found = <<>>
                     THEN /\ preset' = preset + 1
                          /\ UNCHANGED <<contours, left_out, fc, fpc>>
                     ELSE /\ contours' = SubSeq(sorted, 1, top)
                          /\ left_out' = SubSeq(sorted, top + 1, Len(sorted))
                          /\ fc' = 1
                          /\ fpc' = "contour"
                          /\ UNCHANGED preset
                  /\ UNCHANGED fret
    /\ UNCHANGED img_to_use
    /\ UNCHANGED <<cleanVars, ocrVars, pipeVars, orderVars, selectVars, rateVars, collVars>>

\* lines 77-98 for the contour at hand
FindContour ==
    /\ fpc = "contour"
    /\ IF fc > Len(contours)
       THEN /\ preset' = preset + 1
            /\ fpc' = "canny"
            /\ UNCHANGED <<fc, flog, fret>>
       ELSE \E poly \in Polygons :
              LET card == extract_card_perspective(poly)
                  seen == [flog EXCEPT !.areas = Append(@, contours[fc].area)]
              IN  IF CardShaped(poly)
                  THEN /\ flog' = [seen EXCEPT
                                      !.band = IF @ = <<>> THEN <<preset, fc>> ELSE @,
                                      !.failed = @ \/ card = "none"]
                       /\ IF card # "none"
                          THEN /\ fret' = [card |-> card, from |-> <<preset, fc>>]
                               /\ fpc' = "returned"
                               /\ UNCHANGED <<fc, preset>>
                          ELSE /\ fc' = fc + 1
                               /\ UNCHANGED <<fret, fpc, preset>>
                  ELSE /\ flog' = seen
                       /\ fc' = fc + 1
                       /\ UNCHANGED <<fret, fpc, preset>>
    /\ UNCHANGED <<contours, left_out, img_to_use>>
    /\ UNCHANGED <<cleanVars, ocrVars, pipeVars, orderVars, selectVars, rateVars, collVars>>

\* line 393: img_to_use = card if card is not None else cell
FindCaller ==
    /\ fpc = "returned"
    /\ img_to_use' = IF fret.card # "none" THEN "card" ELSE "cell"
    /\ fpc' = "done"
    /\ UNCHANGED <<preset, contours, left_out, fc, flog, fret>>
    /\ UNCHANGED <<cleanVars, ocrVars, pipeVars, orderVars, selectVars, rateVars, collVars>>

NextFind == FindStart \/ FindPreset \/ FindContour \/ FindCaller

SpecFind == InitFind /\ [][NextFind]_vars

\* C16: the presets are tried in the order (30,100), (50,150), (75,200); in a
\* preset at most the 5 largest contours are examined, largest first; the card
\* returned is that of the first 4-vertex polygon in the card band; not-found
\* is reported only after all presets, none having shown such a polygon
C16_FirstCardShapedWins ==
    /\ Len(flog.presets) <= Len(Presets)
    /\ flog.presets = SubSeq(Presets, 1, Len(flog.presets))
    /\ Len(flog.areas) <= TopContours
    /\ \A i, j \in 1..Len(flog.areas) : i < j => flog.areas[i] >= flog.areas[j]
    /\ \A i \in 1..Len(flog.areas) : \A j \in 1..Len(left_out) :
          flog.areas[i] >= left_out[j].area
    /\ (fpc \in {"returned", "done"} /\ fret.card # "none")
          => fret.from = flog.band
    /\ (fpc \in {"returned", "done"} /\ fret.card = "none")
          => (flog.presets = Presets /\ flog.band = <<>>)

\* C17: when the perspective transform fails for a located quadrilateral,
\* nothing is raised and the card is processed from the unwarped original
C17_FallbackToOriginal ==
    (fpc = "done" /\ flog.failed) => img_to_use = "cell"

----------------------------------------------------------------------------
(* SpecRate: request-handling threads calling search_cards,                *)
(* get_card_by_name or get_card_by_id, each of which calls _rate_limit()   *)
(* and then requests.get.  Times are in milliseconds.  A thread can be     *)
(* switched out between any two statements of _rate_limit.                 *)

Threads == {1, 2}

\* scryfall.py line 10: _min_request_interval = 0.1
MinRequestInterval == 100

\* the most requests all threads make together
MaxRequests == 3

\* by how much time.time() can advance between two steps
Ticks == {MinRequestInterval \div 2, MinRequestInterval}

\* time.time() when the first request arrives, far from _last_request_time = 0
StartClock == 10 * MinRequestInterval

\* time.time() stops advancing here
MaxClock == StartClock + 2 * MinRequestInterval

InitRate ==
    /\ clock = StartClock
    /\ last_request_time = 0
    /\ tpc = [th \in Threads |-> "idle"]
    /\ tnow = [th \in Threads |-> 0]
    /\ wake = [th \in Threads |-> 0]
    /\ sent = <<>>
    /\ CleanIdle
    /\ OcrIdle
    /\ PipeIdle
    /\ OrderIdle
    /\ FindIdle
    /\ SelectIdle
    /\ CollIdle

\* time passes
Tick ==
    /\ \E d \in Ticks :
         /\ clock + d <= MaxClock
         /\ clock' = clock + d
    /\ UNCHANGED <<last_request_time, tpc, tnow, wake, sent>>
    /\ UNCHANGED <<cleanVars, ocrVars, pipeVars, orderVars, findVars, selectVars, collVars>>

\* lines 66, 104, 126: a handler calls _rate_limit(); line 16: now = time.time()
RateNow(th) ==
    /\ tpc[th] = "idle"
    /\ Len(sent) + Cardinality({u \in Threads : tpc[u] # "idle"}) < MaxRequests
    /\ tnow' = [tnow EXCEPT ![th] = clock]
    /\ tpc' = [tpc EXCEPT ![th] = "elapsed"]
    /\ UNCHANGED <<clock, last_request_time, wake, sent>>
    /\ UNCHANGED <<cleanVars, ocrVars, pipeVars, orderVars, findVars, selectVars, collVars>>

\* lines 17-19: elapsed = now - _last_request_time, and the call of time.sleep
RateElapsed(th) ==
    /\ tpc[th] = "elapsed"
    /\ LET elapsed == tnow[th] - last_request_time
       IN  IF elapsed < MinRequestInterval
           THEN /\ wake' = [wake EXCEPT ![th] = clock + (MinRequestInterval - elapsed)]
                /\ tpc' = [tpc EXCEPT ![th] = "sleep"]
           ELSE /\ tpc' = [tpc EXCEPT ![th] = "stamp"]
                /\ UNCHANGED wake
    /\ UNCHANGED <<clock, last_request_time, tnow, sent>>
    /\ UNCHANGED <<cleanVars, ocrVars, pipeVars, orderVars, findVars, selectVars, collVars>>

\* line 19: time.sleep returns, no earlier than asked
RateWake(th) ==
    /\ tpc[th] = "sleep"
    /\ clock >= wake[th]
    /\ tpc' = [tpc EXCEPT ![th] = "stamp"]
    /\ UNCHANGED <<clock, last_request_time, tnow, wake, sent>>
    /\ UNCHANGED <<cleanVars, ocrVars, pipeVars, orderVars, findVars, selectVars, collVars>>

\* line 20: _last_request_time = time.time()
RateStamp(th) ==
    /\ tpc[th] = "stamp"
    /\ last_request_time' = clock
    /\ tpc' = [tpc EXCEPT ![th] = "send"]
    /\ UNCHANGED <<clock, tnow, wake, sent>>
    /\ UNCHANGED <<cleanVars, ocrVars, pipeVars, orderVars, findVars, selectVars, collVars>>

\* lines 69, 107, 129: requests.get starts the request
RateSend(th) ==
    /\ tpc[th] = "send"
    /\ sent' = Append(sent, clock)
    /\ tpc' = [tpc EXCEPT ![th] = "idle"]
    /\ UNCHANGED <<clock, last_request_time, tnow, wake>>
    /\ UNCHANGED <<cleanVars, ocrVars, pipeVars, orderVars, findVars, selectVars, collVars>>

NextRate ==
    \/ Tick
    \/ \E th \in Threads : RateNow(th)
    \/ \E th \in Threads : RateElapsed(th)
    \/ \E th \in Threads : RateWake(th)
    \/ \E th \in Threads : RateStamp(th)
    \/ \E th \in Threads : RateSend(th)

SpecRate == InitRate /\ [][NextRate]_vars

\* C18: whatever the interleaving of the threads, any two outgoing requests
\* are started at least 100 ms apart
C18_RequestsSpaced ==
    \A i, j \in 1..Len(sent) :
        i < j => sent[j] - sent[i] >= MinRequestInterval

----------------------------------------------------------------------------
(* the card names of the scan route *)

\* C19: every name clean_card_name returns has at least 3 letters, also when
\* the cleaned first line is longer than 50 characters and is cut
C19_VisionNameThreeLetters ==
    \A k \in 1..Len(results) :
        results[k].error # "Empty slot or unreadable"
            => LetterCount(results[k].ocr_text.text) >= 3

----------------------------------------------------------------------------
(* the cells of detect_binder_grid *)

\* the image detect_binder_grid is given: line 378
BinderDims == resize_image_for_processing(width, height, 1500)

\* C21: each cell of detect_binder_grid holds only pixels of its own grid
\* rectangle [col*cw, (col+1)*cw) x [row*ch, (row+1)*ch), cw = width div 3
\* and ch = height div 3, for every image width and height
C21_CellInsideOwnRect ==
    (mode = "binder" /\ cells # <<>>) =>
        \A k \in 1..Len(cells) :
            LET c  == cells[k]
                cw == BinderDims[1] \div GridSide
                ch == BinderDims[2] \div GridSide
            IN  (c.w > 0 /\ c.h > 0) =>
                    /\ c.col * cw <= c.x0
                    /\ c.x1 <= (c.col + 1) * cw
                    /\ c.row * ch <= c.y0
                    /\ c.y1 <= (c.row + 1) * ch

----------------------------------------------------------------------------
(* the lookups of the scan route *)

\* C22: a transient failure of a lookup is not remembered: after a call of
\* get_card_by_name(name) whose request failed, a later call with the same
\* name contacts the service again
C22_FailureNotRemembered ==
    \A i, j \in 1..Len(lookups) :
        (/\ i < j
         /\ lookups[i].name = lookups[j].name
         /\ lookups[i].met = "request_exception")
            => lookups[j].met # "cached"

----------------------------------------------------------------------------
(* SpecColl: the collection routes on the rows of one (scryfall_id, foil)  *)
(* pair.  Each request runs in its own connection and transaction          *)
(* (get_cursor): a SELECT sees the committed rows, an UPDATE or DELETE of  *)
(* a row waits while another open transaction has written that row, and    *)
(* the writes become visible at conn.commit().  The statements are those   *)
(* of collection.py; the table takes any integer as a quantity and any     *)
(* number of rows for the pair, as the code's own checks suppose.          *)

\* the most requests made in all
MaxOps == 3

\* data.get('quantity', 1) of add_card: whatever integer the body holds
AddQuantities == {-1, 0, 1, 2}

\* int(match.group(1)) of parse_decklist, or 1 without a number: \d+ is >= 0
DeckQuantities == {0, 1, 2}

\* data['quantity'] of update_card
UpdateQuantities == {0, 1, 2}

\* the card_id of update_card and remove_card
CardIds == {1, 2}

NoRow == [id |-> 0, quantity |-> 0]

NoWrite == [kind |-> "none", id |-> 0, quantity |-> 0]

IdleTx == [pc |-> "idle", op |-> "none", q |-> 0, id |-> 0,
           existing |-> NoRow, w |-> NoWrite]

\* the collection before the requests: empty, or one row of quantity 1
InitColl ==
    /\ table \in {{}, {[id |-> 1, quantity |-> 1]}}
    /\ next_id = Cardinality(table) + 1
    /\ tx = [th \in Threads |-> IdleTx]
    /\ hist = [NoHist EXCEPT !.prev = IF table = {} THEN 0 ELSE 1]
    /\ CleanIdle
    /\ OcrIdle
    /\ PipeIdle
    /\ OrderIdle
    /\ FindIdle
    /\ SelectIdle
    /\ RateIdle

\* another open transaction has updated or deleted the row id
Locked(id, th) ==
    \E u \in Threads \ {th} :
        /\ tx[u].pc = "written"
        /\ tx[u].w.kind \in {"update", "delete"}
        /\ tx[u].w.id = id

\* a request arrives: add_card (line 52), import_decklist with a one-line
\* decklist (line 282), update_card (line 130) or remove_card (line 118)
CollRequest(th) ==
    /\ tx[th].pc = "idle"
    /\ hist.nreq < MaxOps
    /\ \E op \in {"add", "import", "update", "remove"} :
       \E q \in (CASE op = "add" -> AddQuantities
                   [] op = "import" -> DeckQuantities
                   [] op = "update" -> UpdateQuantities
                   [] OTHER -> {0}) :
       \E id \in (IF op \in {"update", "remove"} THEN CardIds ELSE {0}) :
         /\ tx' = [tx EXCEPT ![th] = [IdleTx EXCEPT !.pc = "begin", !.op = op,
                                                    !.q = q, !.id = id]]
         /\ hist' = [hist EXCEPT !.nreq = @ + 1,
                                 !.other = @ \/ op \in {"update", "remove"}]
    /\ UNCHANGED <<table, next_id>>
    /\ UNCHANGED <<cleanVars, ocrVars, pipeVars, orderVars, findVars, selectVars, rateVars>>

\* the first statement: the SELECT of add_card (66-70), get_card_by_name and
\* the SELECT of import_decklist (315-330), the SELECT of update_card
\* (139-143); remove_card has none
CollSelect(th) ==
    /\ tx[th].pc = "begin"
    /\ CASE tx[th].op = "add" ->
              /\ \E r \in (IF table = {} THEN {NoRow} ELSE table) :
                    tx' = [tx EXCEPT ![th].pc = "selected", ![th].existing = r]
              /\ hist' = [hist EXCEPT !.asked = @ + tx[th].q, !.adds = @ + 1]
         [] tx[th].op = "import" ->
              \E card_data \in BOOLEAN :
                IF ~card_data
                THEN /\ tx' = [tx EXCEPT ![th] = IdleTx]
                     /\ UNCHANGED hist
                ELSE /\ \E r \in (IF table = {} THEN {NoRow} ELSE table) :
                          tx' = [tx EXCEPT ![th].pc = "selected", ![th].existing = r]
                     /\ hist' = [hist EXCEPT !.asked = @ + tx[th].q, !.adds = @ + 1]
         [] tx[th].op = "update" ->
              /\ IF \E r \in table : r.id = tx[th].id
                 THEN tx' = [tx EXCEPT ![th].pc = "selected",
                                       ![th].existing =
                                           CHOOSE r \in table : r.id = tx[th].id]
                 ELSE tx' = [tx EXCEPT ![th] = IdleTx]
              /\ UNCHANGED hist
         [] OTHER ->
              /\ tx' = [tx EXCEPT ![th].pc = "selected"]
              /\ UNCHANGED hist
    /\ UNCHANGED <<table, next_id>>
    /\ UNCHANGED <<cleanVars, ocrVars, pipeVars, orderVars, findVars, selectVars, rateVars>>

\* the UPDATE ... RETURNING * of a row: when the row is gone, fetchone() gives
\* None, dict(None) raises and get_cursor rolls back
UpdateRow(th, id, quantity) ==
    IF \E r \in table : r.id = id
    THEN [tx EXCEPT ![th].pc = "written",
                    ![th].w = [kind |-> "update", id |-> id, quantity |-> quantity]]
    ELSE [tx EXCEPT ![th] = IdleTx]

\* the writing statement: lines 72-108 of add_card, 332-372 of import_decklist,
\* 158-167 of update_card, 121 of remove_card
CollWrite(th) ==
    /\ tx[th].pc = "selected"
    /\ CASE tx[th].op \in {"add", "import"} /\ tx[th].existing # NoRow ->
              /\ ~Locked(tx[th].existing.id, th)
              /\ tx' = UpdateRow(th, tx[th].existing.id,
                                 tx[th].existing.quantity + tx[th].q)
              /\ UNCHANGED next_id
         [] tx[th].op \in {"add", "import"} /\ tx[th].existing = NoRow ->
              /\ tx' = [tx EXCEPT ![th].pc = "written",
                                  ![th].w = [kind |-> "insert", id |-> next_id,
                                             quantity |-> tx[th].q]]
              /\ next_id' = next_id + 1
         [] tx[th].op = "update" /\ tx[th].q <= 0 ->
              /\ ~Locked(tx[th].id, th)
              /\ tx' = [tx EXCEPT ![th].pc = "written",
                                  ![th].w = [kind |-> "delete", id |-> tx[th].id,
                                             quantity |-> 0]]
              /\ UNCHANGED next_id
         [] tx[th].op = "update" /\ tx[th].q > 0 ->
              /\ ~Locked(tx[th].id, th)
              /\ tx' = UpdateRow(th, tx[th].id, tx[th].q)
              /\ UNCHANGED next_id
         [] OTHER ->
              /\ ~Locked(tx[th].id, th)
              /\ tx' = [tx EXCEPT ![th].pc = "written",
                                  ![th].w = [kind |-> "delete", id |-> tx[th].id,
                                             quantity |-> 0]]
              /\ UNCHANGED next_id
    /\ UNCHANGED <<table, hist>>
    /\ UNCHANGED <<cleanVars, ocrVars, pipeVars, orderVars, findVars, selectVars, rateVars>>

\* the rows after a transaction's write is committed
Applied(w) ==
    CASE w.kind = "insert" -> table \cup {[id |-> w.id, quantity |-> w.quantity]}
      [] w.kind = "update" ->
            {IF r.id = w.id THEN [id |-> r.id, quantity |-> w.quantity] ELSE r :
                r \in table}
      [] w.kind = "delete" -> {r \in table : r.id # w.id}
      [] OTHER -> table

\* db.py line 25: conn.commit()
CollCommit(th) ==
    /\ tx[th].pc = "written"
    /\ table' = Applied(tx[th].w)
    /\ tx' = [tx EXCEPT ![th] = IdleTx]
    /\ UNCHANGED <<next_id, hist>>
    /\ UNCHANGED <<cleanVars, ocrVars, pipeVars, orderVars, findVars, selectVars, rateVars>>

NextColl ==
    \/ \E th \in Threads : CollRequest(th)
    \/ \E th \in Threads : CollSelect(th)
    \/ \E th \in Threads : CollWrite(th)
    \/ \E th \in Threads : CollCommit(th)

SpecColl == InitColl /\ [][NextColl]_vars

\* every request made so far has ended
AllCommitted == \A th \in Threads : tx[th].pc = "idle"

\* C23: whatever the interleaving of add_card and import_decklist requests for
\* one (scryfall_id, foil), once all have committed the collection holds one
\* row for the pair, of the previous quantity plus all the quantities asked
C23_NoLostIncrement ==
    (AllCommitted /\ ~hist.other /\ hist.adds > 0) =>
        \E r \in table :
            /\ table = {r}
            /\ r.quantity = hist.prev + hist.asked

\* C24: after any requests, every row of the collection has quantity >= 1
C24_QuantityPositive == \A r \in table : r.quantity >= 1
====
